---- MODULE Spec2Model ----
(***************************************************************************)
(* The MCP subsystem of mangler.finance: MCPClient (JSON-RPC over the      *)
(* stdio of a child process), MCPRegistry (per-user pool of running        *)
(* servers), MCPRateLimiter (hourly quota on the call log) and MCPExecutor.*)
(*                                                                         *)
(* The program runs on one asyncio event loop.  An action of this module   *)
(* is the code a coroutine runs between two suspension points: the places  *)
(* where it really yields are the acquisition of the registry lock, the    *)
(* wait for a JSON-RPC response (asyncio.wait_for on the future), and the  *)
(* waits of MCPClient.shutdown.  The store client is synchronous, so a     *)
(* store call never yields.                                                *)
(***************************************************************************)
EXTENDS Naturals, Integers, Sequences, FiniteSets, TLC

\* ---------------------------------------------------------------- bounds
NumTasks == 2      \* coroutines running operations concurrently
MaxClients == 2    \* MCPClient objects ever constructed
MaxReq == 3        \* requests one client ever sends
MaxCalls == 2      \* rows the call log ever holds
\* the limiter's calls_per_hour (100 in production), scaled down
CallsPerHour == 1

Tasks == 1..NumTasks
Clients == 1..MaxClients
Users == {1, 2}
\* the rows of mcp_configurations in created_at order: configs 1 and 2
Configs == {1, 2}
ConfigRows == <<1, 2>>
\* the tool names a request carries
Tools == {"t1"}

\* mcp_configurations.user_id: both configurations belong to user 1
ConfigOwner(c) == 1

\* mcp_configurations.name, the display name
ConfigName(c) == IF c = 1 THEN "alpha" ELSE "beta"

\* the tool names the process of configuration c answers tools/list with
ServerTools(c) == IF c = 1 THEN {"t1"} ELSE {"t1", "t2"}

VARIABLES
  task,            \* per coroutine: the operation it runs and its locals
  client,          \* per MCPClient object: its fields and its process
  nclients,        \* MCPClient objects constructed so far
  user_servers,    \* MCPRegistry._user_servers
  loaded_users,    \* MCPRegistry._loaded_users
  lock,            \* MCPRegistry._lock: the task holding it, or 0
  enabled,         \* mcp_configurations.enabled, per configuration
  store_up,        \* whether the store client is available and answers
  calls,           \* mcp_tool_calls, in insertion order
  expired,         \* how many of the oldest rows are older than one hour
  since_shutdown,  \* users whose shutdown_user_mcps returned, with no load since
  ret              \* the call that returned last, and what it returned

vars == <<task, client, nclients, user_servers, loaded_users, lock,
          enabled, store_up, calls, expired, since_shutdown, ret>>
regVars == <<user_servers, loaded_users, lock>>
storeVars == <<enabled, store_up, calls, expired>>

\* ------------------------------------------------------------ MCPClient
\* MCPClient.__init__
NewClient ==
  [process |-> "none",          \* self.process: none, running, exited
   stdin_closed |-> FALSE,      \* process.stdin was closed by shutdown
   request_id |-> 0,
   pending_requests |-> {},     \* the ids with a future in the map
   reader_task |-> "none",      \* none, running, done, cancelled
   initialized |-> FALSE,
   written |-> {},              \* <<id, method>> lines the process received
   config |-> 0,                \* the configuration the client was built from
   registered |-> FALSE,        \* it has been an instance of the registry map
   answered |-> {},             \* handshake methods answered with a result
   name |-> "",                 \* self.name, MCPServer.name
   tools |-> {}]                \* MCPServer.tools of the instance built on it

NoRes == [kind |-> "none", what |-> "", val |-> 0]
Return(v) == [kind |-> "return", what |-> "", val |-> v]
Raise(e) == [kind |-> "raise", what |-> e, val |-> 0]

\* an MCPToolCallResponse (models.py); the optional fields default to None
NoResp == [success |-> FALSE, tool_name |-> "", result |-> 0, error |-> "",
           execution_time_ms |-> "None", set |-> FALSE]
NoneResult == 0
NoneError == ""

\* the methods of one MCPClient, called directly
ClientOps == {"c_start", "c_init", "c_list", "c_call", "c_shutdown"}

\* a coroutine that runs nothing
Idle ==
  [op |-> "idle", pc |-> "idle", user |-> 0, config |-> 0, tool |-> "",
   cl |-> 0, rid |-> 0, method |-> "", fut |-> "none",
   configs |-> <<>>, servers |-> {}, todo |-> <<>>, users |-> <<>>,
   val |-> 0,
   failed |-> {}]      \* configurations whose start failed in this load

Free(t) == task[t].pc = "idle"

\* what a call that is over leaves behind: its arguments, its outcome r (a
\* value returned or an exception raised) and, of MCPExecutor.execute, the
\* MCPToolCallResponse
Returned(tk, r, resp) ==
  [op |-> tk.op, user |-> tk.user, config |-> tk.config, tool |-> tk.tool,
   cl |-> IF tk.op \in ClientOps THEN tk.cl ELSE 0,
   rid |-> IF tk.op \in ClientOps THEN tk.rid ELSE 0,
   servers |-> IF tk.op \in ClientOps THEN {} ELSE tk.servers,
   tools |-> {},
   cached |-> FALSE,      \* load_user_mcps returned at line 41
   res |-> r, resp |-> resp]

\* _send_request, lines 117-118: the client has a process with a stdin
Started(c) == c.process # "none"

\* a client that takes itself for initialized from the start
AlwaysInitialized(c) == TRUE

\* list_tools line 172, call_tool line 192
IsInitialized(c) == c.initialized

\* stdin.write and drain, lines 136-137: the line reaches a live process whose
\* stdin is open; otherwise the transport drops it, and drain raises or not
WriteOutcomes(c) ==
  IF c.process = "running" /\ ~c.stdin_closed
  THEN {"ok"} ELSE {"raise", "dropped"}

\* a _send_request that takes the counter as it is, without the increment
SendSameId(cli, cl, method, w) ==
  LET rid == cli[cl].request_id + 1 IN
  [cli EXCEPT ![cl].pending_requests = @ \cup {rid},
              ![cl].written = IF w = "ok" THEN @ \cup {<<rid, method>>} ELSE @]

\* _send_request, lines 120-137, on client cl with write outcome w
Send(cli, cl, method, w) ==
  LET rid == cli[cl].request_id + 1 IN
  [cli EXCEPT ![cl].request_id = rid,
              ![cl].pending_requests = @ \cup {rid},
              ![cl].written = IF w = "ok" THEN @ \cup {<<rid, method>>} ELSE @]

\* the caller of _send_request at line 143, waiting on its future
Awaiting(tk, cl, rid, method) ==
  [tk EXCEPT !.cl = cl, !.rid = rid, !.method = method, !.fut = "pending",
             !.pc = "await", !.val = 0]

\* the caller whose write raised at lines 136-137
WriteFailed(tk, cl, rid, method) ==
  [tk EXCEPT !.cl = cl, !.rid = rid, !.method = method, !.fut = "none"]

\* a reader that hands a response to whoever waits on the client
AnyFuture(cl, id) ==
  {t \in Tasks : task[t].pc = "await" /\ task[t].cl = cl}

\* _handle_response, lines 98-99: the futures stored under this id
FutureFor(cl, id) ==
  {t \in Tasks : task[t].pc = "await" /\ task[t].cl = cl /\ task[t].rid = id}

\* a handler without the done() test
SetWhenFound(found, isdone) == found

\* _handle_response, line 100: if future and not future.done()
ShouldSet(found, isdone) == found /\ ~isdone

\* a pop that removes nothing
KeepPending(pend, id) == pend

\* a pop that clears the whole map
PopAll(pend, id) == {}

\* _handle_response, line 99: pending_requests.pop(request_id, None)
Popped(pend, id) == pend \ {id}

\* ---------------------------------------------------------- the call log
\* check_rate_limit, lines 39-43: rows of this configuration in the last hour
CallCount(c) ==
  Cardinality({i \in (expired + 1)..Len(calls) : calls[i].mcp_config_id = c})

\* check_rate_limit, line 47
Allowed(call_count) == call_count < CallsPerHour

\* check_rate_limit, line 46
Remaining(call_count) ==
  IF CallsPerHour - call_count > 0 THEN CallsPerHour - call_count ELSE 0

\* check_rate_limit, lines 25-27 and 56-60: (True, None), None being -1
RemainingNone == 0 - 1

\* a limiter that refuses every call while it cannot read the store
FailClosed(u, c) ==
  IF ~store_up
  THEN [allowed |-> FALSE, remaining |-> 0]
  ELSE [allowed |-> Allowed(CallCount(c)),
        remaining |-> Remaining(CallCount(c))]

\* check_rate_limit, lines 29-60; user_id is only written to the log
CheckRateLimit(u, c) ==
  IF ~store_up
  THEN [allowed |-> TRUE, remaining |-> RemainingNone]
  ELSE [allowed |-> Allowed(CallCount(c)),
        remaining |-> Remaining(CallCount(c))]

\* a recorder that lets the failure of the store reach its caller
RecordOrRaise(log, rec) ==
  IF ~store_up
  THEN [calls |-> log, raised |-> TRUE]
  ELSE [calls |-> Append(log, rec), raised |-> FALSE]

\* a recorder that inserts nothing
RecordNothing(log, rec) == [calls |-> log, raised |-> FALSE]

\* record_tool_call, lines 72-87: the log afterwards, and whether it raised
RecordToolCall(log, rec) ==
  IF ~store_up
  THEN [calls |-> log, raised |-> FALSE]
  ELSE [calls |-> Append(log, rec), raised |-> FALSE]

ToolCallRow(tk, ok, msg) ==
  [mcp_config_id |-> tk.config, user_id |-> tk.user, tool_name |-> tk.tool,
   success |-> ok, error_message |-> msg]

\* an executor that lets every call through
NeverDenied(lim) == FALSE

\* MCPExecutor.execute, line 35: if not allowed
IsDenied(lim) == ~lim.allowed

\* MCPExecutor.execute, lines 35-44
Denied(tk) ==
  [success |-> FALSE, tool_name |-> tk.tool, result |-> NoneResult,
   error |-> "Rate limit exceeded (100 calls/hour). Please try again later.",
   execution_time_ms |-> "None", set |-> TRUE]

\* MCPExecutor.execute, lines 72-77
Succeeded(tk, v) ==
  [success |-> TRUE, tool_name |-> tk.tool, result |-> v,
   error |-> NoneError, execution_time_ms |-> "set", set |-> TRUE]

\* MCPExecutor.execute, lines 95-100
Failed(tk, msg) ==
  [success |-> FALSE, tool_name |-> tk.tool, result |-> NoneResult,
   error |-> msg, execution_time_ms |-> "set", set |-> TRUE]

\* ----------------------------------------------------------- MCPExecutor
\* MCPExecutor.execute, lines 56-100, once execute_tool returned or raised r
ExecuteDone(t, tk, cli, r) ==
  LET ok == r.kind = "return"
      first == RecordToolCall(calls,
                 ToolCallRow(tk, ok, IF ok THEN NoneError ELSE r.what))
      \* a raise of the recording at line 59 lands in the except of line 79
      again == ok /\ first.raised
      second == RecordToolCall(first.calls,
                  ToolCallRow(tk, FALSE, "record failed"))
      raised == IF again THEN second.raised ELSE first.raised
      resp == IF ok /\ ~again THEN Succeeded(tk, r.val)
              ELSE IF again THEN Failed(tk, "record failed")
              ELSE Failed(tk, r.what)
  IN /\ calls' = (IF again THEN second.calls ELSE first.calls)
     /\ client' = cli
     /\ task' = [task EXCEPT ![t] = Idle]
     /\ ret' = (IF raised THEN Returned(tk, Raise("record failed"), NoResp)
                ELSE Returned(tk, Return(0), resp))
     /\ UNCHANGED <<nclients, regVars, enabled, store_up, expired,
                    since_shutdown>>

\* an operation that hands the outcome of the client call to its caller:
\* MCPClient.initialize (lines 153-168), list_tools, call_tool, and
\* MCPRegistry.execute_tool (lines 172-174)
SimpleDone(t, tk, cli, r) ==
  /\ task' = [task EXCEPT ![t] = Idle]
  /\ ret' = Returned(tk, r, NoResp)
  /\ client' = (IF tk.op = "c_init" /\ r.kind = "return"
                THEN [cli EXCEPT ![tk.cl].initialized = TRUE] ELSE cli)
  /\ UNCHANGED <<nclients, regVars, storeVars, since_shutdown>>

\* ----------------------------------------------------------- MCPRegistry
ConfigRow(c) == [id |-> c, name |-> ConfigName(c), enabled |-> enabled[c]]

\* _fetch_user_configs, lines 78-95
FetchUserConfigs(u) ==
  IF ~store_up THEN <<>>
  ELSE SelectSeq([i \in 1..Len(ConfigRows) |-> ConfigRow(ConfigRows[i])],
                 LAMBDA row : ConfigOwner(row.id) = u)

\* a load that never takes the user for loaded
NeverCached(u, force) == FALSE

\* load_user_mcps, line 39
IsCached(u, force) == u \in loaded_users /\ ~force

\* load_user_mcps, line 41
CachedServers(u) ==
  IF u \in DOMAIN user_servers
  THEN {user_servers[u][c] : c \in DOMAIN user_servers[u]} ELSE {}

\* a load without the already-running test
NeverRunning(m, c) == FALSE

\* load_user_mcps, line 61
AlreadyRunning(m, c) == c \in DOMAIN m

\* a load that starts disabled configurations too
NeverSkipped(cfg) == FALSE

\* load_user_mcps, line 56
Skipped(cfg) == ~cfg.enabled

\* load_user_mcps, lines 55-64: the loop up to the next configuration to start
RECURSIVE LoadSkip(_, _, _)
LoadSkip(cfgs, m, acc) ==
  IF cfgs = <<>> THEN [configs |-> <<>>, servers |-> acc]
  ELSE IF Skipped(Head(cfgs)) THEN LoadSkip(Tail(cfgs), m, acc)
  ELSE IF AlreadyRunning(m, Head(cfgs).id)
       THEN LoadSkip(Tail(cfgs), m, acc \cup {m[Head(cfgs).id]})
  ELSE [configs |-> cfgs, servers |-> acc]

\* a load that gives up at the first start that fails
AbortRest(cfgs) == <<>>

\* load_user_mcps, lines 67-68: _start_mcp_server returned None (lines
\* 125-127) and the loop goes on with the configurations after this one
RestAfterFailure(cfgs) == Tail(cfgs)

\* the start of the configuration at the head of tk.configs has failed
StartFailed(tk) == [tk EXCEPT !.failed = @ \cup {Head(tk.configs).id}]

\* load_user_mcps, line 69
Register(m, c, cl) == [x \in DOMAIN m \cup {c} |-> IF x = c THEN cl ELSE m[x]]

\* a load that marks the user loaded only when every start succeeded
MarkIfAllStarted(lu, tk) == IF tk.failed = {} THEN lu \cup {tk.user} ELSE lu

\* load_user_mcps, line 72: whatever the fetch and the starts came to
MarkLoaded(lu, tk) == lu \cup {tk.user}

\* load_user_mcps, lines 55-74, from the configurations cfgs on: either the
\* next start is awaited (line 67, create_subprocess_exec), or the loop is
\* over, the user is marked loaded and the lock is released
LoadAdvance(t, tk, cli, us, cfgs) ==
  LET sk == LoadSkip(cfgs, us[tk.user], tk.servers)
      tk2 == [tk EXCEPT !.configs = sk.configs, !.servers = sk.servers,
                        !.fut = "none"]
  IN /\ client' = cli
     /\ user_servers' = us
     /\ IF sk.configs # <<>>
        THEN /\ task' = [task EXCEPT ![t] = [tk2 EXCEPT !.pc = "spawning"]]
             /\ lock' = t
             /\ UNCHANGED <<loaded_users, ret>>
        ELSE /\ loaded_users' = MarkLoaded(loaded_users, tk2)
             /\ lock' = 0
             /\ IF tk.op = "tools"
                THEN /\ task' = [task EXCEPT ![t] =
                                  [tk2 EXCEPT !.pc = "tools_lock",
                                              !.failed = {}]]
                     /\ UNCHANGED ret
                ELSE /\ task' = [task EXCEPT ![t] = Idle]
                     /\ ret' = Returned(tk2, Return(0), NoResp)

\* a start that takes every outcome of its awaits for a success
StartAlways(r) == TRUE

\* _start_mcp_server, lines 110-127: the try block goes on when the awaited
\* call returned, and the except clause takes over when it raised
StartSucceeded(r) == r.kind = "return"

\* _start_mcp_server, lines 110-127, once initialize or tools/list is over
StartStep(t, tk, cli, r) ==
  /\ UNCHANGED <<nclients, storeVars, since_shutdown>>
  /\ IF StartSucceeded(r) /\ tk.method = "initialize"
     THEN LET cli1 == [cli EXCEPT ![tk.cl].initialized = TRUE]
              rid == cli1[tk.cl].request_id + 1
          IN \E w \in WriteOutcomes(cli1[tk.cl]) :
               IF w = "raise"
               THEN LoadAdvance(t, StartFailed(WriteFailed(tk, tk.cl, rid,
                                                           "tools/list")),
                                Send(cli1, tk.cl, "tools/list", w),
                                user_servers, RestAfterFailure(tk.configs))
               ELSE /\ task' = [task EXCEPT ![t] =
                                 Awaiting(tk, tk.cl, rid, "tools/list")]
                    /\ client' = Send(cli1, tk.cl, "tools/list", w)
                    /\ UNCHANGED <<regVars, ret>>
     ELSE IF StartSucceeded(r)
     THEN LoadAdvance(t, [tk EXCEPT !.servers = @ \cup {tk.cl}],
                      [cli EXCEPT ![tk.cl].registered = TRUE,
                                  ![tk.cl].tools =
                                    ServerTools(Head(tk.configs).id)],
                      [user_servers EXCEPT ![tk.user] =
                         Register(@, Head(tk.configs).id, tk.cl)],
                      Tail(tk.configs))
     ELSE LoadAdvance(t, StartFailed(tk), cli, user_servers,
                      RestAfterFailure(tk.configs))

\* the caller of a client method takes its outcome r
Complete(t, tk, cli, r) ==
  IF tk.op = "execute" THEN ExecuteDone(t, tk, cli, r)
  ELSE IF tk.op \in {"load", "tools"} THEN StartStep(t, tk, cli, r)
  ELSE SimpleDone(t, tk, cli, r)

\* an execute_tool that keeps the registry lock while it waits for call_tool
HeldDuringCall(t) == t

\* execute_tool, lines 162-172: the async with block ends at line 169, so
\* the lock is as the lookup found it, free, while call_tool is awaited
LockDuringCall(t) == lock

\* list_tools (lines 172-177) and call_tool (lines 192-202) up to the wait
\* of _send_request; initialize (line 153) has no initialized check
CallMethod(t, tk, cl, method) ==
  IF method # "initialize" /\ ~IsInitialized(client[cl])
  THEN Complete(t, tk, client, Raise("not initialized"))
  ELSE IF ~Started(client[cl])
  THEN Complete(t, tk, client, Raise("not started"))
  ELSE /\ client[cl].request_id < MaxReq
       /\ LET rid == client[cl].request_id + 1 IN
          \E w \in WriteOutcomes(client[cl]) :
            IF w = "raise"
            THEN Complete(t, WriteFailed(tk, cl, rid, method),
                          Send(client, cl, method, w), Raise("write failed"))
            ELSE /\ task' = [task EXCEPT ![t] = Awaiting(tk, cl, rid, method)]
                 /\ client' = Send(client, cl, method, w)
                 /\ lock' = LockDuringCall(t)
                 /\ UNCHANGED <<nclients, user_servers, loaded_users,
                                storeVars, since_shutdown, ret>>

\* _send_request, lines 143-144: the future is done, the caller resumes
AwaitResult(t) ==
  /\ task[t].pc = "await"
  /\ task[t].fut \in {"result", "error"}
  /\ Complete(t, task[t], client,
              IF task[t].fut = "result" THEN Return(task[t].val)
              ELSE Raise("mcp error"))

\* asyncio.wait_for, line 143: the 30 s are over, the future is cancelled
TimeoutFires(t) ==
  /\ task[t].pc = "await"
  /\ task[t].fut = "pending"
  /\ task' = [task EXCEPT ![t].fut = "cancelled"]
  /\ UNCHANGED <<client, nclients, regVars, storeVars, since_shutdown, ret>>

\* _send_request, lines 145-147
AwaitTimeout(t) ==
  /\ task[t].pc = "await"
  /\ task[t].fut = "cancelled"
  /\ Complete(t, task[t],
              [client EXCEPT ![task[t].cl].pending_requests =
                               Popped(@, task[t].rid)],
              Raise("timeout"))

\* _send_request, lines 143-147: the 30 s are over with no response and the
\* caller resumes before any other coroutine runs
RequestTimeout(t) ==
  /\ task[t].pc = "await"
  /\ task[t].fut = "pending"
  /\ Complete(t, task[t],
              [client EXCEPT ![task[t].cl].pending_requests =
                               Popped(@, task[t].rid)],
              Raise("timeout"))

\* _read_responses reads one response line of the server (lines 79-86) and
\* _handle_response handles it (lines 96-106); kind is result or error
HandleResponse(cl, id, kind) ==
  /\ client[cl].reader_task = "running"
  /\ client[cl].process = "running"
  /\ LET found == id \in client[cl].pending_requests
         futs == FutureFor(cl, id)
         isdone == \A t \in futs : task[t].fut # "pending"
     IN /\ client' = [client EXCEPT
                        ![cl].pending_requests = Popped(@, id),
                        \* set_result on a done future raises in the reader
                        ![cl].reader_task =
                          IF ShouldSet(found, isdone)
                             /\ \E t \in futs : task[t].fut # "pending"
                          THEN "done" ELSE @,
                        ![cl].answered =
                          IF ShouldSet(found, isdone) /\ kind = "result"
                          THEN @ \cup ({task[t].method :
                                          t \in {x \in futs :
                                                   task[x].fut = "pending"}}
                                         \cap {"initialize", "tools/list"})
                          ELSE @]
        /\ task' = [t \in Tasks |->
                     IF ShouldSet(found, isdone) /\ t \in futs
                        /\ task[t].fut = "pending"
                     THEN [task[t] EXCEPT !.fut = kind, !.val = id]
                     ELSE task[t]]
  /\ UNCHANGED <<nclients, regVars, storeVars, since_shutdown, ret>>

\* the lines of stdout that are no JSON-RPC message: text that is no JSON,
\* bytes that are no UTF-8, and JSON values that are no object
MalformedLines ==
  {"invalid_json", "undecodable", "json_array", "json_string", "json_number",
   "json_null"}

\* _read_responses, lines 84-92, and _handle_response, line 96: whether the
\* reader loop goes on after the line. json.JSONDecodeError is caught inside
\* the loop (line 87); the UnicodeDecodeError of line.decode() and the
\* TypeError of '"id" in response' on a number or None are caught outside
\* of it (line 91), which ends the task; a list or a string without "id" goes
\* to the notification branch (line 107)
ReaderGoesOn(line) == line \in {"invalid_json", "json_array", "json_string"}

\* _read_responses reads a malformed line of the server
MalformedLine(cl, line) ==
  /\ client[cl].reader_task = "running"
  /\ client[cl].process = "running"
  /\ client' = [client EXCEPT ![cl].reader_task =
                                IF ReaderGoesOn(line) THEN @ ELSE "done"]
  /\ UNCHANGED <<task, nclients, regVars, storeVars, since_shutdown, ret>>

\* the child process exits; stdout closes and the reader ends (lines 80-82)
ProcExit(cl) ==
  /\ client[cl].process = "running"
  /\ client' = [client EXCEPT
                  ![cl].process = "exited",
                  ![cl].reader_task = IF @ = "running" THEN "done" ELSE @]
  /\ UNCHANGED <<task, nclients, regVars, storeVars, since_shutdown, ret>>

\* ------------------------------------------------- MCPRegistry operations
\* load_user_mcps, lines 37-47 (also as called by get_user_tools, line 135):
\* the first hold of the lock, then the fetch of the configurations
LoadBegin(t, op, u, force) ==
  /\ Free(t)
  /\ lock = 0
  /\ LET tk == [Idle EXCEPT !.op = op, !.user = u] IN
     IF ~IsCached(u, force)
     THEN /\ task' = [task EXCEPT ![t] =
                       [tk EXCEPT !.pc = "load_lock",
                                  !.configs = FetchUserConfigs(u)]]
          /\ UNCHANGED ret
     ELSE IF op = "tools"
     THEN /\ task' = [task EXCEPT ![t] = [tk EXCEPT !.pc = "tools_lock"]]
          /\ UNCHANGED ret
     ELSE /\ task' = task
          /\ ret' = [Returned([tk EXCEPT !.servers = CachedServers(u)],
                              Return(0), NoResp)
                       EXCEPT !.cached = TRUE]
  /\ since_shutdown' = since_shutdown \ {u}
  /\ UNCHANGED <<client, nclients, regVars, storeVars>>

LoadUserMcps(t, U, F) ==
  \E u \in U, force \in F : LoadBegin(t, "load", u, force)

\* load_user_mcps, lines 50-53: the second hold of the lock
LoadLocked(t) ==
  /\ task[t].pc = "load_lock"
  /\ lock = 0
  /\ LoadAdvance(t, task[t], client,
                 IF task[t].user \in DOMAIN user_servers THEN user_servers
                 ELSE [u \in DOMAIN user_servers \cup {task[t].user} |->
                         IF u = task[t].user THEN <<>> ELSE user_servers[u]],
                 task[t].configs)
  /\ since_shutdown' = since_shutdown \ {task[t].user}
  /\ UNCHANGED <<nclients, storeVars>>

\* _start_mcp_server, lines 102-110: MCPClient.start (lines 57-67) spawned the
\* process and the reader, and initialize is sent; or start raised
SpawnDone(t) ==
  /\ task[t].pc = "spawning"
  /\ \/ /\ LoadAdvance(t, StartFailed(task[t]), client, user_servers,
                        RestAfterFailure(task[t].configs))
        /\ UNCHANGED <<nclients, storeVars, since_shutdown>>
     \/ /\ nclients < MaxClients
        /\ LET cl == nclients + 1
               cli == [client EXCEPT ![cl] =
                         [NewClient EXCEPT !.process = "running",
                                           !.reader_task = "running",
                                           !.config = Head(task[t].configs).id,
                                           !.name = Head(task[t].configs).name]]
           IN /\ client' = Send(cli, cl, "initialize", "ok")
              /\ task' = [task EXCEPT ![t] =
                           Awaiting(task[t], cl, 1, "initialize")]
              /\ nclients' = cl
        /\ UNCHANGED <<regVars, storeVars, since_shutdown, ret>>

\* get_user_tools, line 135
GetUserTools(t, U) == \E u \in U : LoadBegin(t, "tools", u, FALSE)

\* a collection that finds no tool
NoTools(u) == {}

\* get_user_tools, lines 137-149: one MCPTool per tool of every instance of
\* the user's map
UserTools(u) ==
  IF u \notin DOMAIN user_servers THEN {}
  ELSE UNION {{[name |-> tl, mcp_server_id |-> c,
                mcp_server_name |-> client[user_servers[u][c]].name] :
                 tl \in client[user_servers[u][c]].tools} :
                c \in DOMAIN user_servers[u]}

\* get_user_tools, lines 138-152
ToolsCollect(t) ==
  /\ task[t].pc = "tools_lock"
  /\ lock = 0
  /\ task' = [task EXCEPT ![t] = Idle]
  /\ ret' = [Returned([task[t] EXCEPT
                         !.servers = CachedServers(task[t].user)],
                      Return(0), NoResp)
               EXCEPT !.tools = UserTools(task[t].user)]
  /\ UNCHANGED <<client, nclients, regVars, storeVars, since_shutdown>>

\* a lookup that takes any instance of the user for the one asked for
LookupAnyConfig(us, u, c) ==
  IF u \in DOMAIN us /\ DOMAIN us[u] # {}
  THEN us[u][CHOOSE x \in DOMAIN us[u] : TRUE]
  ELSE 0

\* execute_tool, lines 163-164: the instance of (user, config), None being 0
Lookup(us, u, c) ==
  IF u \in DOMAIN us /\ c \in DOMAIN us[u] THEN us[u][c] ELSE 0

\* execute_tool, lines 167-169: the text of the ValueError
NotFoundMsg(c, u) ==
  "MCP server " \o ToString(c) \o " not found for user " \o ToString(u)

\* execute_tool, lines 162-174, up to the wait for the response
LookupAndCall(t, tk) ==
  /\ lock = 0
  /\ LET server == Lookup(user_servers, tk.user, tk.config) IN
     IF server # 0
     THEN CallMethod(t, tk, server, "tools/call")
     ELSE Complete(t, tk, client, Raise(NotFoundMsg(tk.config, tk.user)))

\* a direct call of MCPRegistry.execute_tool
ExecuteTool(t, U, C) ==
  /\ Free(t)
  /\ \E u \in U, c \in C :
       LookupAndCall(t, [Idle EXCEPT !.op = "exec_tool", !.user = u,
                                     !.config = c,
                                     !.tool = CHOOSE x \in Tools : TRUE])

\* ------------------------------------------------------------ shutdown
\* MCPClient.shutdown, lines 217-223: cancel the reader, close stdin
ShutdownFirst(cli, cl) ==
  [cli EXCEPT ![cl].reader_task = IF @ = "running" THEN "cancelled" ELSE @,
              ![cl].stdin_closed = IF cli[cl].process # "none" THEN TRUE ELSE @]

\* shutdown_user_mcps, lines 184-187: client.shutdown of the next client,
\* up to its first wait
ShutdownClient(t, tk, cli) ==
  /\ client' = ShutdownFirst(cli, Head(tk.todo))
  /\ task' = [task EXCEPT ![t] =
               [tk EXCEPT !.pc = IF cli[Head(tk.todo)].process = "none"
                                 THEN "sd_wait_exit" ELSE "sd_closing",
                          !.cl = Head(tk.todo)]]

\* a shutdown that takes a client with no process through its waits
WaitForAll(todo, cli) == todo

\* MCPClient.shutdown, lines 216-226: on a client with no process all three
\* tests are false and shutdown returns without a wait; the clients left
\* after those
RECURSIVE SkipNotStarted(_, _)
SkipNotStarted(todo, cli) ==
  IF todo # <<>> /\ cli[Head(todo)].process = "none"
  THEN SkipNotStarted(Tail(todo), cli)
  ELSE todo

\* shutdown_user_mcps, lines 184-191: the next client of the loop, or the end
ShutdownNext(t, tk, cli) ==
  LET rest == [tk EXCEPT !.todo = SkipNotStarted(@, cli)] IN
  IF rest.todo = <<>>
  THEN /\ task' = [task EXCEPT ![t] = Idle]
       /\ ret' = Returned(rest, Return(0), NoResp)
       /\ client' = cli
       /\ since_shutdown' = (IF tk.op = "shutdown_user"
                             THEN since_shutdown \cup {tk.user}
                             ELSE since_shutdown)
  ELSE /\ ShutdownClient(t, rest, cli)
       /\ UNCHANGED <<since_shutdown, ret>>

\* the values of a dict in the order of its keys
RECURSIVE Values(_)
Values(m) ==
  IF DOMAIN m = {} THEN <<>>
  ELSE LET c == CHOOSE x \in DOMAIN m : \A y \in DOMAIN m : x <= y IN
       <<m[c]>> \o Values([x \in DOMAIN m \ {c} |-> m[x]])

\* a shutdown that reads the user's servers and leaves them in the map
KeepUser(us, u) == us

\* shutdown_user_mcps, lines 180-182: pop the user's servers under the lock
PopUser(us, u) == [x \in DOMAIN us \ {u} |-> us[x]]

ShutdownUserMcps(t, U) ==
  /\ Free(t)
  /\ lock = 0
  /\ \E u \in U :
       LET popped == IF u \in DOMAIN user_servers THEN user_servers[u] ELSE <<>>
           tk == [Idle EXCEPT !.op = "shutdown_user", !.user = u,
                              !.todo = Values(popped),
                              !.servers = {popped[c] : c \in DOMAIN popped}]
       IN /\ user_servers' = PopUser(user_servers, u)
          /\ loaded_users' = loaded_users \ {u}
          /\ ShutdownNext(t, tk, client)
  /\ UNCHANGED <<nclients, lock, storeVars>>

\* the users of a shutdown_all whose shutdown_user_mcps runs through with
\* no wait, the lock being free: their maps are popped and hold no instance
\* (lines 180-182, the loop of line 184 is empty); what is left is the first
\* user with instances, popped too, or nothing
RECURSIVE AllSkip(_, _, _, _)
AllSkip(users, us, lu, done) ==
  IF users = <<>>
  THEN [users |-> <<>>, us |-> us, lu |-> lu, done |-> done, user |-> 0,
        popped |-> <<>>]
  ELSE LET u == Head(users)
           popped == IF u \in DOMAIN us THEN us[u] ELSE <<>>
       IN IF DOMAIN popped = {}
          THEN AllSkip(Tail(users), PopUser(us, u), lu \ {u}, done \cup {u})
          ELSE [users |-> Tail(users), us |-> PopUser(us, u), lu |-> lu \ {u},
                done |-> done, user |-> u, popped |-> popped]

\* shutdown_all, lines 197-201: the loop from the users tk.users on, the
\* shutdown_user_mcps calls of the users in done having returned
AllAdvance(t, tk, cli, done) ==
  IF tk.users # <<>> /\ lock # 0
  THEN /\ task' = [task EXCEPT ![t] = [tk EXCEPT !.pc = "all_lock",
                                                 !.todo = <<>>]]
       /\ client' = cli
       /\ since_shutdown' = since_shutdown \cup done
       /\ UNCHANGED <<regVars, ret>>
  ELSE LET sk == AllSkip(tk.users, user_servers, loaded_users, done)
           tk2 == [tk EXCEPT !.users = sk.users, !.user = sk.user,
                             !.todo = Values(sk.popped),
                             !.servers = @ \cup {sk.popped[c] :
                                                   c \in DOMAIN sk.popped}]
       IN /\ user_servers' = sk.us
          /\ loaded_users' = sk.lu
          /\ since_shutdown' = since_shutdown \cup sk.done
          /\ UNCHANGED lock
          /\ IF tk2.todo = <<>>
             THEN /\ task' = [task EXCEPT ![t] = Idle]
                  /\ ret' = Returned(tk2, Return(0), NoResp)
                  /\ client' = cli
             ELSE /\ ShutdownClient(t, tk2, cli)
                  /\ UNCHANGED ret

\* client.shutdown has returned to the loop of shutdown_user_mcps (line 184)
SdAdvance(t, tk, cli) ==
  IF tk.op = "shutdown_all" /\ tk.todo = <<>>
  THEN AllAdvance(t, tk, cli, {tk.user})
  ELSE /\ ShutdownNext(t, tk, cli)
       /\ UNCHANGED regVars

\* MCPClient.shutdown, line 223: stdin.wait_closed() returns, or raises the
\* error the pipe was lost with (line 236 logs it and shutdown is over)
SdClosed(t) ==
  /\ task[t].pc = "sd_closing"
  /\ \/ /\ task' = [task EXCEPT ![t].pc = "sd_wait_exit"]
        /\ UNCHANGED <<client, regVars, since_shutdown, ret>>
     \/ /\ client[task[t].cl].process = "exited"
        /\ SdAdvance(t, [task[t] EXCEPT !.todo = Tail(@)], client)
  /\ UNCHANGED <<nclients, storeVars>>

\* MCPClient.shutdown, lines 226-228: the process has exited (or there is none)
SdExited(t) ==
  /\ task[t].pc \in {"sd_wait_exit", "sd_wait_term"}
  /\ client[task[t].cl].process # "running"
  /\ SdAdvance(t, [task[t] EXCEPT !.todo = Tail(@)], client)
  /\ UNCHANGED <<nclients, storeVars>>

\* shutdown_all, lines 197-199: the keys of the map, in the order the users
\* were inserted, and the first shutdown_user_mcps
ShutdownAll(t) ==
  /\ Free(t)
  /\ \E order \in [1..Cardinality(DOMAIN user_servers) -> DOMAIN user_servers] :
       /\ \A i, j \in DOMAIN order : order[i] = order[j] => i = j
       /\ AllAdvance(t, [Idle EXCEPT !.op = "shutdown_all", !.users = order],
                     client, {})
  /\ UNCHANGED <<nclients, storeVars>>

\* shutdown_user_mcps of the next user, line 180, once the lock is free
AllLocked(t) ==
  /\ task[t].pc = "all_lock"
  /\ lock = 0
  /\ AllAdvance(t, task[t], client, {})
  /\ UNCHANGED <<nclients, storeVars>>

\* MCPClient.shutdown, lines 229-232: 5 s are over, terminate and wait
SdTimeout(t) ==
  /\ task[t].pc = "sd_wait_exit"
  /\ client[task[t].cl].process = "running"
  /\ task' = [task EXCEPT ![t].pc = "sd_wait_term"]
  /\ UNCHANGED <<client, nclients, regVars, storeVars, since_shutdown, ret>>

\* ------------------------------------------------- MCPExecutor.execute
\* execute, lines 30-54: the quota check; a denied call returns at once, an
\* allowed one goes on to registry.execute_tool, waiting for the lock if held
Execute(t, U, C, T) ==
  /\ Free(t)
  /\ Len(calls) + Cardinality({x \in Tasks : task[x].op = "execute"}) < MaxCalls
  /\ \E u \in U, c \in C, tool \in T :
       LET lim == CheckRateLimit(u, c)
           tk == [Idle EXCEPT !.op = "execute", !.user = u, !.config = c,
                              !.tool = tool]
       IN IF IsDenied(lim)
          THEN /\ task' = task
               /\ ret' = Returned(tk, Return(0), Denied(tk))
               /\ UNCHANGED <<client, nclients, regVars, enabled, store_up,
                              calls, expired, since_shutdown>>
          ELSE IF lock # 0
          THEN /\ task' = [task EXCEPT ![t] = [tk EXCEPT !.pc = "exec_lock"]]
               /\ UNCHANGED <<client, nclients, regVars, enabled, store_up,
                              calls, expired, since_shutdown, ret>>
          ELSE LookupAndCall(t, tk)

\* execute, lines 49-54: registry.execute_tool once the lock is free
ExecuteCall(t) ==
  /\ task[t].pc = "exec_lock"
  /\ LookupAndCall(t, task[t])

\* --------------------------------------------------------- environment
\* the store becomes unreachable, or reachable again
StoreFlip ==
  /\ store_up' = ~store_up
  /\ UNCHANGED <<task, client, nclients, regVars, enabled, calls, expired,
                 since_shutdown, ret>>

\* the owner enables or disables a configuration in mcp_configurations
ToggleEnabled(c) ==
  /\ enabled' = [enabled EXCEPT ![c] = ~@]
  /\ UNCHANGED <<task, client, nclients, regVars, store_up, calls, expired,
                 since_shutdown, ret>>

\* time passes: the oldest row of the last hour is now older than one hour
Expire ==
  /\ expired < Len(calls)
  /\ expired' = expired + 1
  /\ UNCHANGED <<task, client, nclients, regVars, enabled, store_up, calls,
                 since_shutdown, ret>>

\* ------------------------------------------- MCPClient called directly
\* MCPClient.start, lines 57-73, on a client that was constructed
ClientStart(t) ==
  /\ Free(t)
  /\ \E cl \in 1..nclients :
       /\ client[cl].process = "none"
       /\ \E ok \in BOOLEAN :
            /\ task' = task
            /\ ret' = Returned([Idle EXCEPT !.op = "c_start", !.cl = cl],
                               IF ok THEN Return(0) ELSE Raise("spawn failed"),
                               NoResp)
            /\ client' = (IF ok
                          THEN [client EXCEPT ![cl].process = "running",
                                              ![cl].reader_task = "running"]
                          ELSE client)
  /\ UNCHANGED <<nclients, regVars, storeVars, since_shutdown>>

ClientCall(t, op, method) ==
  /\ Free(t)
  /\ \E cl \in 1..nclients :
       CallMethod(t, [Idle EXCEPT !.op = op, !.cl = cl], cl, method)

ClientInitialize(t) == ClientCall(t, "c_init", "initialize")
ClientListTools(t) == ClientCall(t, "c_list", "tools/list")
ClientCallTool(t) == ClientCall(t, "c_call", "tools/call")

\* MCPClient.shutdown, lines 211-237
ClientShutdown(t) ==
  /\ Free(t)
  /\ \E cl \in 1..nclients :
       ShutdownNext(t, [Idle EXCEPT !.op = "c_shutdown", !.todo = <<cl>>,
                                    !.cl = cl],
                    client)
  /\ UNCHANGED <<nclients, regVars, storeVars>>

\* ------------------------------------------------------- specifications
InitWith(en) ==
  /\ task = [t \in Tasks |-> Idle]
  /\ client = [cl \in Clients |-> NewClient]
  /\ user_servers = <<>>
  /\ loaded_users = {}
  /\ lock = 0
  /\ enabled = en
  /\ store_up = TRUE
  /\ calls = <<>>
  /\ expired = 0
  /\ since_shutdown = {}
  /\ ret = Returned(Idle, NoRes, NoResp)

\* the registry and the executor right after construction
Init == InitWith([c \in Configs |-> TRUE]) /\ nclients = 0

\* the executor over a store in which only configuration 1 is enabled
InitExecutor == InitWith([c \in Configs |-> c = 1]) /\ nclients = 0

\* one MCPClient constructed by its caller
InitClient == InitWith([c \in Configs |-> TRUE]) /\ nclients = 1

NextClient ==
  \/ \E t \in Tasks : ClientStart(t)
  \/ \E t \in Tasks : ClientInitialize(t)
  \/ \E t \in Tasks : ClientListTools(t)
  \/ \E t \in Tasks : ClientCallTool(t)
  \/ \E t \in Tasks : ClientShutdown(t)
  \/ \E t \in Tasks : AwaitResult(t)
  \/ \E t \in Tasks : TimeoutFires(t)
  \/ \E t \in Tasks : AwaitTimeout(t)
  \/ \E t \in Tasks : SdClosed(t)
  \/ \E t \in Tasks : SdExited(t)
  \/ \E t \in Tasks : SdTimeout(t)
  \/ \E cl \in Clients, id \in 1..MaxReq, kind \in {"result", "error"} :
       HandleResponse(cl, id, kind)
  \/ \E cl \in Clients : ProcExit(cl)

\* one client whose server also writes lines that are no JSON-RPC message
NextLines ==
  \/ NextClient
  \/ \E cl \in Clients, line \in MalformedLines : MalformedLine(cl, line)

\* the coroutines that call the registry and the executor
Callers == {1, 2}

NextRegistry ==
  \/ \E t \in Callers : LoadUserMcps(t, {1}, BOOLEAN)
  \/ \E t \in Callers : LoadLocked(t)
  \/ \E t \in Callers : SpawnDone(t)
  \/ \E t \in Callers : GetUserTools(t, {1})
  \/ \E t \in Callers : ToolsCollect(t)
  \/ \E t \in Callers : ExecuteTool(t, {1}, Configs)
  \/ \E t \in Callers : ShutdownUserMcps(t, {1})
  \/ \E t \in Callers : AwaitResult(t)
  \/ \E t \in Callers : RequestTimeout(t)
  \/ \E t \in Callers : SdClosed(t)
  \/ \E t \in Callers : SdExited(t)
  \/ \E t \in Callers : SdTimeout(t)
  \/ \E cl \in Clients, id \in 1..MaxReq, kind \in {"result", "error"} :
       HandleResponse(cl, id, kind)
  \/ \E cl \in Clients : ProcExit(cl)

NextExecutor ==
  \/ \E t \in Callers : LoadUserMcps(t, {1}, {FALSE})
  \/ \E t \in Callers : LoadLocked(t)
  \/ \E t \in Callers : SpawnDone(t)
  \/ \E t \in Callers : Execute(t, Users, {1}, Tools)
  \/ \E t \in Callers : ExecuteCall(t)
  \/ \E t \in Callers : AwaitResult(t)
  \/ \E t \in Callers : RequestTimeout(t)
  \/ \E cl \in Clients, id \in 1..MaxReq, kind \in {"result", "error"} :
       HandleResponse(cl, id, kind)
  \/ \E cl \in Clients : ProcExit(cl)
  \/ StoreFlip
  \/ Expire

\* the registry while the owner edits the enabled flags; servers answer or
\* stay silent, nothing is shut down
NextConfig ==
  \/ \E t \in Callers : LoadUserMcps(t, {1}, BOOLEAN)
  \/ \E t \in Callers : LoadLocked(t)
  \/ \E t \in Callers : SpawnDone(t)
  \/ \E t \in Callers : GetUserTools(t, {1})
  \/ \E t \in Callers : ToolsCollect(t)
  \/ \E t \in Callers : ExecuteTool(t, {1}, Configs)
  \/ \E t \in Callers : AwaitResult(t)
  \/ \E t \in Callers : RequestTimeout(t)
  \/ \E cl \in Clients, id \in 1..MaxReq, kind \in {"result", "error"} :
       HandleResponse(cl, id, kind)
  \/ \E c \in Configs : ToggleEnabled(c)

\* the registry while user 1 loads and user 2, who owns no configuration,
\* calls every operation; servers answer or stay silent
NextUsers ==
  \/ \E t \in Callers : LoadUserMcps(t, Users, {FALSE})
  \/ \E t \in Callers : LoadLocked(t)
  \/ \E t \in Callers : SpawnDone(t)
  \/ \E t \in Callers : GetUserTools(t, {2})
  \/ \E t \in Callers : ToolsCollect(t)
  \/ \E t \in Callers : ExecuteTool(t, {2}, Configs)
  \/ \E t \in Callers : ShutdownUserMcps(t, {2})
  \/ \E t \in Callers : AwaitResult(t)
  \/ \E t \in Callers : RequestTimeout(t)
  \/ \E cl \in Clients, id \in 1..MaxReq, kind \in {"result", "error"} :
       HandleResponse(cl, id, kind)

\* the executor and execute_tool called for both configurations of user 1
\* while the user is loaded and shut down; configuration 2 is disabled
NextLookup ==
  \/ \E t \in Callers : LoadUserMcps(t, {1}, {FALSE})
  \/ \E t \in Callers : LoadLocked(t)
  \/ \E t \in Callers : SpawnDone(t)
  \/ \E t \in Callers : Execute(t, {1}, Configs, Tools)
  \/ \E t \in Callers : ExecuteCall(t)
  \/ \E t \in Callers : ExecuteTool(t, {1}, Configs)
  \/ \E t \in Callers : ShutdownUserMcps(t, {1})
  \/ \E t \in Callers : AwaitResult(t)
  \/ \E t \in Callers : RequestTimeout(t)
  \/ \E t \in Callers : SdClosed(t)
  \/ \E t \in Callers : SdExited(t)
  \/ \E t \in Callers : SdTimeout(t)
  \/ \E cl \in Clients, id \in 1..MaxReq, kind \in {"result", "error"} :
       HandleResponse(cl, id, kind)
  \/ \E cl \in Clients : ProcExit(cl)

\* one shutdown_all at a time while user 1 is loaded; servers answer, stay
\* silent or exit
NextAll ==
  \/ \E t \in Callers : LoadUserMcps(t, {1}, {FALSE})
  \/ \E t \in Callers : LoadLocked(t)
  \/ \E t \in Callers : SpawnDone(t)
  \/ \E t \in Callers :
       /\ \A x \in Tasks : task[x].op # "shutdown_all"
       /\ ShutdownAll(t)
  \/ \E t \in Callers : AllLocked(t)
  \/ \E t \in Callers : AwaitResult(t)
  \/ \E t \in Callers : RequestTimeout(t)
  \/ \E t \in Callers : SdClosed(t)
  \/ \E t \in Callers : SdExited(t)
  \/ \E t \in Callers : SdTimeout(t)
  \/ \E cl \in Clients, id \in 1..MaxReq, kind \in {"result", "error"} :
       HandleResponse(cl, id, kind)
  \/ \E cl \in Clients : ProcExit(cl)

\* executes of user 1 for configuration 1 within one hour, the store being
\* reachable all along; the user is loaded, shut down and loaded again
NextQuota ==
  \/ \E t \in Callers : LoadUserMcps(t, {1}, {FALSE})
  \/ \E t \in Callers : LoadLocked(t)
  \/ \E t \in Callers : SpawnDone(t)
  \/ \E t \in Callers : Execute(t, {1}, {1}, Tools)
  \/ \E t \in Callers : ExecuteCall(t)
  \/ \E t \in Callers : ShutdownUserMcps(t, {1})
  \/ \E t \in Callers : AwaitResult(t)
  \/ \E t \in Callers : RequestTimeout(t)
  \/ \E t \in Callers : SdClosed(t)
  \/ \E t \in Callers : SdExited(t)
  \/ \E t \in Callers : SdTimeout(t)
  \/ \E cl \in Clients, id \in 1..MaxReq, kind \in {"result", "error"} :
       HandleResponse(cl, id, kind)
  \/ \E cl \in Clients : ProcExit(cl)

\* non-forced loads and get_user_tools of user 1 while the store comes and
\* goes, starts fail and the user is shut down
NextRetry ==
  \/ \E t \in Callers : LoadUserMcps(t, {1}, {FALSE})
  \/ \E t \in Callers : LoadLocked(t)
  \/ \E t \in Callers : SpawnDone(t)
  \/ \E t \in Callers : GetUserTools(t, {1})
  \/ \E t \in Callers : ToolsCollect(t)
  \/ \E t \in Callers : ShutdownUserMcps(t, {1})
  \/ \E t \in Callers : AwaitResult(t)
  \/ \E t \in Callers : RequestTimeout(t)
  \/ \E t \in Callers : SdClosed(t)
  \/ \E t \in Callers : SdExited(t)
  \/ \E t \in Callers : SdTimeout(t)
  \/ \E cl \in Clients, id \in 1..MaxReq, kind \in {"result", "error"} :
       HandleResponse(cl, id, kind)
  \/ \E cl \in Clients : ProcExit(cl)
  \/ StoreFlip

\* loads of user 1, every one with force_reload, and get_user_tools while
\* the owner edits the enabled flags; servers answer or stay silent
NextReload ==
  \/ \E t \in Callers : LoadUserMcps(t, {1}, {TRUE})
  \/ \E t \in Callers : LoadLocked(t)
  \/ \E t \in Callers : SpawnDone(t)
  \/ \E t \in Callers : GetUserTools(t, {1})
  \/ \E t \in Callers : ToolsCollect(t)
  \/ \E t \in Callers : AwaitResult(t)
  \/ \E t \in Callers : RequestTimeout(t)
  \/ \E cl \in Clients, id \in 1..MaxReq, kind \in {"result", "error"} :
       HandleResponse(cl, id, kind)
  \/ \E c \in Configs : ToggleEnabled(c)

\* every operation that waits for the registry lock, of user 1: loads,
\* get_user_tools, execute for configuration 1 and one shutdown_all at a
\* time; servers answer or stay silent, and exit only while they are shut
\* down
NextLock ==
  \/ \E t \in Callers : LoadUserMcps(t, {1}, {FALSE})
  \/ \E t \in Callers : LoadLocked(t)
  \/ \E t \in Callers : SpawnDone(t)
  \/ \E t \in Callers : GetUserTools(t, {1})
  \/ \E t \in Callers : ToolsCollect(t)
  \/ \E t \in Callers : Execute(t, {1}, {1}, Tools)
  \/ \E t \in Callers : ExecuteCall(t)
  \/ \E t \in Callers :
       /\ \A x \in Tasks : task[x].op # "shutdown_all"
       /\ ShutdownAll(t)
  \/ \E t \in Callers : AllLocked(t)
  \/ \E t \in Callers : AwaitResult(t)
  \/ \E t \in Callers : RequestTimeout(t)
  \/ \E t \in Callers : SdClosed(t)
  \/ \E t \in Callers : SdExited(t)
  \/ \E t \in Callers : SdTimeout(t)
  \/ \E cl \in Clients, id \in 1..MaxReq, kind \in {"result"} :
       HandleResponse(cl, id, kind)
  \/ \E cl \in Clients :
       /\ \E t \in Callers : /\ task[t].pc \in {"sd_wait_exit", "sd_wait_term"}
                              /\ task[t].cl = cl
       /\ ProcExit(cl)

SpecClient == InitClient /\ [][NextClient]_vars
SpecLines == InitClient /\ [][NextLines]_vars
SpecRegistry == Init /\ [][NextRegistry]_vars
SpecExecutor == InitExecutor /\ [][NextExecutor]_vars
SpecConfig == Init /\ [][NextConfig]_vars
SpecUsers == Init /\ [][NextUsers]_vars
SpecLookup == InitExecutor /\ [][NextLookup]_vars
SpecAll == Init /\ [][NextAll]_vars
SpecQuota == InitExecutor /\ [][NextQuota]_vars
SpecRetry == Init /\ [][NextRetry]_vars
SpecReload == Init /\ [][NextReload]_vars
SpecLock == InitExecutor /\ [][NextLock]_vars

\* the executor with the timer of asyncio.wait_for (line 143) and the event
\* loop doing their work: a request that stays unanswered does time out, and
\* a coroutine whose future is done does resume
SpecExecutorFair ==
  /\ SpecExecutor
  /\ \A t \in Callers : WF_vars(RequestTimeout(t))
  /\ \A t \in Callers : WF_vars(AwaitResult(t))

\* one client with the event loop doing its work in MCPClient.shutdown:
\* wait_closed returns (line 223), the 5 s of wait_for run out (line 228) and
\* a process.wait() whose process has exited returns (lines 228, 232); when
\* and whether the process exits, before or after terminate(), is its own
SpecShutdownFair ==
  /\ SpecClient
  /\ \A t \in Tasks : WF_vars(SdClosed(t))
  /\ \A t \in Tasks : WF_vars(SdTimeout(t))
  /\ \A t \in Tasks : WF_vars(SdExited(t))

\* the coroutine t, waiting at an `async with self._lock`, gets the lock
AcquireLock(t) ==
  \/ LoadLocked(t)
  \/ ToolsCollect(t)
  \/ ExecuteCall(t)
  \/ AllLocked(t)

\* the lock waiters with the event loop doing its work: a future that is
\* done resumes its coroutine, an unanswered request times out after 30 s
\* (line 143), create_subprocess_exec returns or raises, and asyncio.Lock
\* wakes its waiters in the order they came, so that a waiter gets the lock
\* if it is released again and again
SpecLockFair ==
  /\ SpecLock
  /\ \A t \in Callers : WF_vars(AwaitResult(t))
  /\ \A t \in Callers : WF_vars(RequestTimeout(t))
  /\ \A t \in Callers : WF_vars(SpawnDone(t))
  /\ \A t \in Callers : SF_vars(AcquireLock(t))

C2_QuotaPerPair ==
  LET PairCount(u, c) ==
        Cardinality({i \in (expired + 1)..Len(calls) :
                       /\ calls[i].user_id = u
                       /\ calls[i].mcp_config_id = c})
  IN store_up =>
       \A u \in Users, c \in Configs :
         /\ PairCount(u, c) >= CallsPerHour =>
              /\ ~CheckRateLimit(u, c).allowed
              /\ CheckRateLimit(u, c).remaining = 0
         /\ PairCount(u, c) = 0 => CheckRateLimit(u, c).allowed

\* C3: MCPExecutor.execute never raises: whatever the quota check, the tool
\* call and the recording did, the caller gets an MCPToolCallResponse for the
\* tool it named.
C3_ExecuteNeverRaises ==
  ret.op = "execute" =>
    /\ ret.res.kind = "return"
    /\ ret.resp.set
    /\ ret.resp.tool_name = ret.tool

\* a call that timed out while the store was unreachable still got a response
C3_Witness ==
  /\ ret.op = "execute"
  /\ ret.resp.set
  /\ ~ret.resp.success
  /\ ret.resp.error = "timeout"
  /\ ~store_up
  /\ calls = <<>>

\* C4 as stated: every execute that the quota check lets through appends
\* exactly one row for its user, configuration and tool, with success and the
\* error text of the outcome.
C4_OneRowPerAttempt ==
  [][LET done == {t \in Tasks : task[t].op = "execute" /\ task'[t].op = "idle"}
         atonce == /\ ret' # ret
                   /\ ret'.op = "execute"
                   /\ ret'.resp # Denied(ret')
                   /\ \A t \in Tasks : task'[t] = task[t]
     IN (done # {} \/ atonce) =>
          calls' = Append(calls,
                     [mcp_config_id |-> ret'.config, user_id |-> ret'.user,
                      tool_name |-> ret'.tool,
                      success |-> ret'.resp.success,
                      error_message |-> ret'.resp.error])]_vars

\* C4, amended: an execute that the quota check lets through appends exactly
\* one row for its user, configuration and tool, with success and the error
\* text of the outcome, when the store takes the insert; when the store is
\* unreachable no row is appended and the response is returned all the same.
C4_OneRowWhenStoreUp ==
  [][LET done == {t \in Tasks : task[t].op = "execute" /\ task'[t].op = "idle"}
         atonce == /\ ret' # ret
                   /\ ret'.op = "execute"
                   /\ ret'.resp # Denied(ret')
                   /\ \A t \in Tasks : task'[t] = task[t]
     IN (done # {} \/ atonce) =>
          /\ ret'.op = "execute"
          /\ ret'.resp.set
          /\ IF store_up
             THEN calls' = Append(calls,
                             [mcp_config_id |-> ret'.config,
                              user_id |-> ret'.user,
                              tool_name |-> ret'.tool,
                              success |-> ret'.resp.success,
                              error_message |-> ret'.resp.error])
             ELSE calls' = calls]_vars

\* a timed out call left a row with success false and the error text
C4_Witness ==
  /\ ret.op = "execute"
  /\ ret.resp.error = "timeout"
  /\ Len(calls) >= 1
  /\ calls[Len(calls)] = [mcp_config_id |-> ret.config, user_id |-> ret.user,
                          tool_name |-> ret.tool, success |-> FALSE,
                          error_message |-> "timeout"]

\* C5: while check_rate_limit answers allowed = false for a configuration, an
\* execute for it starts no tool call: no coroutine goes on to execute_tool,
\* the call returns the quota response with success false, nothing is written
\* to a process and nothing is recorded.
C5_DeniedDoesNothing ==
  [][\A u \in Users :
       ~CheckRateLimit(u, 1).allowed =>
         /\ \A t \in Tasks : task'[t].op = "execute" => task[t].op = "execute"
         /\ (/\ ret' # ret
             /\ ret'.op = "execute"
             /\ \A t \in Tasks : task'[t] = task[t])
            => /\ ret'.resp = Denied(ret')
               /\ ~ret'.resp.success
               /\ client' = client
               /\ calls' = calls]_vars

\* a call was denied although the user's server was registered and running
C5_Witness ==
  /\ ret.op = "execute"
  /\ ret.resp = Denied(ret)
  /\ ret.user = 1
  /\ 1 \in DOMAIN user_servers
  /\ 1 \in DOMAIN user_servers[1]
  /\ client[user_servers[1][1]].process = "running"
  /\ client[user_servers[1][1]].written = {<<1, "initialize">>,
                                           <<2, "tools/list">>}

\* C6 as stated: once shutdown_user_mcps(user) has returned and until a later
\* load for that user, the user has no instance in the map and every process
\* that belonged to an instance of the user has exited.
C6_AfterShutdownReturned ==
  \A u \in since_shutdown :
    /\ u \notin DOMAIN user_servers
    /\ \A cl \in 1..nclients :
         client[cl].registered /\ ConfigOwner(client[cl].config) = u
           => client[cl].process = "exited"

\* C6, amended: shutdown_user_mcps(user) removes the user's entry from the
\* map, so from then on and until a load creates the entry again execute_tool
\* for that user raises the not-found error and writes nothing; and when a
\* shutdown_user_mcps call returns, the process of every instance that this
\* call removed has exited.
C6_ShutdownRemovesAndStops ==
  [][/\ \A t \in Tasks :
          task[t].op = "idle" /\ task'[t].op = "shutdown_user"
            => task'[t].user \notin DOMAIN user_servers'
     /\ \A t \in Tasks :
          (/\ task[t].op = "idle"
           /\ task'[t].op = "exec_tool")
            => task'[t].user \in DOMAIN user_servers
     /\ (/\ ret' # ret
         /\ ret'.op = "exec_tool"
         /\ \A t \in Tasks : task'[t] = task[t]
         /\ ret'.user \notin DOMAIN user_servers)
        => /\ ret'.res = Raise(NotFoundMsg(ret'.config, ret'.user))
           /\ client' = client
     /\ ret'.op = "shutdown_user"
          => \A cl \in ret'.servers : client'[cl].process = "exited"]_vars

\* a shutdown that removed two instances has returned, and an execute_tool
\* for the user would not find them
C6_Witness ==
  /\ ret.op = "shutdown_user"
  /\ Cardinality(ret.servers) = 2
  /\ \A cl \in ret.servers : client[cl].process = "exited"
  /\ 1 \notin DOMAIN user_servers
  /\ 1 \in since_shutdown

\* C7: a request whose 30 s are over fails with the timeout error and its
\* entry leaves pending_requests, and nothing else changes: the other
\* coroutines keep their futures and a request that is still awaited keeps its
\* entry, so its own response resolves it.
C7_TimeoutFreesOnlyItself ==
  [][/\ \A t \in Tasks :
          (/\ task[t].pc = "await"
           /\ task[t].fut = "cancelled"
           /\ task'[t].pc = "idle")
            => /\ ret'.res = Raise("timeout")
               /\ client'[task[t].cl].pending_requests =
                    client[task[t].cl].pending_requests \ {task[t].rid}
               /\ \A o \in Tasks \ {t} : task'[o] = task[o]
     /\ \A t \in Tasks :
          task'[t].pc = "await" /\ task'[t].fut = "pending"
            => task'[t].rid \in client'[task'[t].cl].pending_requests]_vars

\* a request timed out, and a request sent after it has its result
C7_Witness ==
  /\ ret.op = "c_call"
  /\ ret.res = Raise("timeout")
  /\ \E t \in Tasks : /\ task[t].pc = "await"
                      /\ task[t].fut = "result"
                      /\ task[t].rid > ret.rid
                      /\ task[t].val = task[t].rid

\* C8: the outcome a caller of _send_request gets is that of the response
\* that carries its own request id, for every order of the responses.
C8_OwnResponse ==
  /\ \A t \in Tasks :
       task[t].pc = "await" /\ task[t].fut \in {"result", "error"}
         => task[t].val = task[t].rid
  /\ (ret.op \in {"c_init", "c_list", "c_call"} /\ ret.res.kind = "return")
       => ret.res.val = ret.rid

\* the server answered request 3 before request 2: the caller of request 3
\* has its result while request 2 is still awaited
C8_Witness ==
  /\ ret.op = "c_call"
  /\ ret.res = Return(3)
  /\ ret.rid = 3
  /\ \E t \in Tasks : /\ task[t].pc = "await"
                      /\ task[t].rid = 2
                      /\ task[t].fut = "pending"

\* C9: a future is completed by the first response with its id, which also
\* removes the entry and touches no other request; a future that is done is
\* never set again; and the reader never ends while the process runs, so no
\* response makes _handle_response raise.
C9_ResolvedOnce ==
  [][/\ \A t \in Tasks :
          (/\ task[t].pc = "await"
           /\ task[t].fut = "pending"
           /\ task'[t].pc = "await"
           /\ task'[t].fut \in {"result", "error"})
            => /\ task[t].rid \in client[task[t].cl].pending_requests
               /\ client'[task[t].cl].pending_requests =
                    client[task[t].cl].pending_requests \ {task[t].rid}
               /\ task'[t].val = task[t].rid
               /\ \A o \in Tasks \ {t} : task'[o] = task[o]
     /\ \A t \in Tasks :
          (/\ task[t].pc = "await"
           /\ task[t].fut \in {"result", "error", "cancelled"}
           /\ task'[t].pc = "await"
           /\ task'[t].rid = task[t].rid)
            => task'[t] = task[t]
     /\ \A cl \in Clients :
          client[cl].reader_task = "running" /\ client'[cl].reader_task = "done"
            => client'[cl].process = "exited"]_vars

\* the response to a request that had timed out came late: the entry is gone,
\* the future was left alone and the reader runs on
C9_Witness ==
  \E t \in Tasks :
    /\ task[t].pc = "await"
    /\ task[t].fut = "cancelled"
    /\ task[t].rid \notin client[task[t].cl].pending_requests
    /\ client[task[t].cl].reader_task = "running"
    /\ client[task[t].cl].process = "running"

\* C10: as long as a client is not initialized, only initialize requests
\* have been written to its process or are awaited on it, and list_tools and
\* call_tool have raised the not-initialized error.
C10_NotInitialized ==
  \A cl \in 1..nclients :
    ~client[cl].initialized =>
      /\ \A w \in client[cl].written : w[2] = "initialize"
      /\ \A t \in Tasks :
           task[t].pc = "await" /\ task[t].cl = cl
             => task[t].method = "initialize"
      /\ (ret.op \in {"c_list", "c_call"} /\ ret.cl = cl)
           => ret.res = Raise("not initialized")

\* list_tools was refused while initialize was still in flight
C10_Witness ==
  /\ ret.op = "c_list"
  /\ ret.res = Raise("not initialized")
  /\ client[1].process = "running"
  /\ client[1].written = {<<1, "initialize">>}
  /\ \E t \in Tasks : /\ task[t].pc = "await"
                      /\ task[t].method = "initialize"
                      /\ task[t].fut = "pending"

\* C11: a load starts a process only for a configuration whose row had
\* enabled = true when the load fetched it: the configuration a load is
\* spawning or handshaking with is enabled in the rows it fetched, whatever
\* the flag has become since and whatever load, get_user_tools and
\* execute_tool calls ran before.
C11_NoSpawnForDisabled ==
  \A t \in Tasks :
    (task[t].op \in {"load", "tools"} /\ task[t].pc \in {"spawning", "await"})
      => /\ task[t].configs # <<>>
         /\ Head(task[t].configs).enabled
         /\ task[t].pc = "await"
              => client[task[t].cl].config = Head(task[t].configs).id

\* configuration 1 was disabled when it was fetched: the load returned the
\* instance of configuration 2 and no client was ever built for 1
C11_Witness ==
  /\ ret.op = "load"
  /\ ret.servers = {1}
  /\ nclients = 1
  /\ client[1].config = 2
  /\ client[1].registered
  /\ ~enabled[1]
  /\ 1 \in loaded_users

\* C12: while the call log cannot be read, check_rate_limit answers
\* (allowed = true, remaining = None) for every pair, and an execute called
\* then is never turned away with the quota response: it goes on to
\* execute_tool, whose outcome it returns.
C12_FailOpen ==
  [][~store_up =>
       /\ \A u \in Users, c \in Configs :
            CheckRateLimit(u, c) = [allowed |-> TRUE,
                                    remaining |-> RemainingNone]
       /\ (/\ ret' # ret
           /\ ret'.op = "execute"
           /\ \A t \in Tasks : task'[t] = task[t])
          => /\ ret'.resp # Denied(ret')
             /\ ret'.resp.execution_time_ms = "set"]_vars

\* the log holds a full quota of rows of the last hour and cannot be read:
\* an execute was let through and its tools/call is in flight
C12_Witness ==
  /\ ~store_up
  /\ expired = 0
  /\ Len(calls) >= CallsPerHour
  /\ \A i \in 1..Len(calls) : calls[i].mcp_config_id = 1
  /\ \E t \in Tasks : /\ task[t].op = "execute"
                      /\ task[t].pc = "await"
                      /\ task[t].method = "tools/call"
                      /\ <<task[t].rid, "tools/call">>
                           \in client[task[t].cl].written

\* C13: a load never raises, and when its loop is over every enabled
\* configuration of the user is in the user's map unless its own start
\* failed: the failure of one start, first or last in the list, does not
\* keep the load from starting and registering the others.
C13_FailureIsolated ==
  [][\A t \in Tasks :
       (/\ task[t].op \in {"load", "tools"}
        /\ task[t].pc \in {"load_lock", "spawning", "await"}
        /\ task'[t].op = "idle" \/ task'[t].pc = "tools_lock")
         => /\ task'[t].op = "idle"
                 => ret'.op = "load" /\ ret'.res = Return(0)
            /\ task[t].user \in DOMAIN user_servers'
            /\ task[t].user \in loaded_users'
            /\ \A c \in Configs :
                 (ConfigOwner(c) = task[t].user /\ enabled[c]) =>
                   \/ c \in DOMAIN user_servers'[task[t].user]
                   \/ c \in task[t].failed
                   \/ /\ task[t].configs # <<>>
                      /\ c = Head(task[t].configs).id]_vars

\* the handshake of configuration 1 failed after its process was spawned;
\* the same load went on, registered configuration 2 and returned it
C13_Witness ==
  /\ ret.op = "load"
  /\ ret.res = Return(0)
  /\ nclients = 2
  /\ client[1].config = 1
  /\ ~client[1].registered
  /\ client[2].config = 2
  /\ client[2].registered
  /\ ret.servers = {2}
  /\ 1 \in DOMAIN user_servers
  /\ DOMAIN user_servers[1] = {2}

\* C14 as stated: when the process has exited under a tools/call in flight,
\* the reader has ended, the call fails with the timeout once its 30 s are
\* over, its entry is removed, and execute appends a failed row and returns
\* success = false.
C14_CrashThenTimeoutRecorded ==
  /\ [][\A t \in Tasks :
          (/\ task[t].op = "execute"
           /\ task[t].pc = "await"
           /\ task[t].fut = "pending"
           /\ client[task[t].cl].process = "exited"
           /\ task'[t] # task[t])
            => /\ client[task[t].cl].reader_task # "running"
               /\ ret'.resp = Failed(ret', "timeout")
               /\ task[t].rid \notin client'[task[t].cl].pending_requests
               /\ calls' = Append(calls, ToolCallRow(task[t], FALSE,
                                                     "timeout"))]_vars
  /\ \A t \in Tasks :
       (/\ task[t].op = "execute"
        /\ task[t].pc = "await"
        /\ task[t].fut = "pending"
        /\ client[task[t].cl].process = "exited")
         ~> (task[t].op = "idle")

\* C14, amended: when the process has exited under a tools/call in flight,
\* the reader has ended and nothing resolves the request; the call fails
\* with the timeout once its 30 s are over, its entry is removed, and
\* execute returns success = false with the timeout error; the failed row
\* is appended when the store takes the insert, and none is when the store
\* is unreachable.
C14_CrashThenTimeout ==
  /\ [][\A t \in Tasks :
          (/\ task[t].op = "execute"
           /\ task[t].pc = "await"
           /\ task[t].fut = "pending"
           /\ client[task[t].cl].process = "exited"
           /\ task'[t] # task[t])
            => /\ client[task[t].cl].reader_task # "running"
               /\ task'[t].op = "idle"
               /\ ret'.op = "execute"
               /\ ret'.res.kind = "return"
               /\ ret'.resp = Failed(ret', "timeout")
               /\ ~ret'.resp.success
               /\ task[t].rid \notin client'[task[t].cl].pending_requests
               /\ calls' = IF store_up
                           THEN Append(calls, ToolCallRow(task[t], FALSE,
                                                          "timeout"))
                           ELSE calls]_vars
  /\ \A t \in Tasks :
       (/\ task[t].op = "execute"
        /\ task[t].pc = "await"
        /\ task[t].fut = "pending"
        /\ client[task[t].cl].process = "exited")
         ~> (task[t].op = "idle")

\* the process is gone, its reader has ended, and the tools/call that was
\* written to it is still waiting, its entry still in pending_requests
C14_Witness ==
  \E t \in Tasks :
    /\ task[t].op = "execute"
    /\ task[t].pc = "await"
    /\ task[t].fut = "pending"
    /\ task[t].method = "tools/call"
    /\ <<task[t].rid, "tools/call">> \in client[task[t].cl].written
    /\ client[task[t].cl].process = "exited"
    /\ client[task[t].cl].reader_task = "done"
    /\ task[t].rid \in client[task[t].cl].pending_requests

\* C15 as stated: registry operations of different users never block one
\* another: while load_user_mcps of one user is spawning a process or waits
\* for a handshake or tools/list response, every registry operation of
\* another user can take its next step.
C15_UsersNeverBlock ==
  \A t \in Tasks :
    (task[t].op = "load" /\ task[t].pc \in {"spawning", "await"})
      => \A t2 \in Callers \ {t}, u \in Users \ {task[t].user} :
           /\ Free(t2)
                => /\ ENABLED LoadUserMcps(t2, {u}, {FALSE})
                   /\ ENABLED GetUserTools(t2, {u})
                   /\ ENABLED ExecuteTool(t2, {u}, Configs)
                   /\ ENABLED ShutdownUserMcps(t2, {u})
           /\ (task[t2].user = u /\ task[t2].pc = "load_lock")
                => ENABLED LoadLocked(t2)
           /\ (task[t2].user = u /\ task[t2].pc = "tools_lock")
                => ENABLED ToolsCollect(t2)

\* C16: the registry holds at most one instance per (user, config) pair
\* under any interleaving of loads (forced or not), get_user_tools,
\* execute_tool and shutdown_user_mcps: no instance is being started for a
\* pair that has a registered one, no client is registered under two keys,
\* and the instance of a pair is never replaced by a second one while the
\* pair stays in the map.
C16_OneInstancePerPair ==
  /\ [](/\ \A t \in Tasks :
            (task[t].op \in {"load", "tools"}
               /\ task[t].pc \in {"spawning", "await"})
              => /\ task[t].user \in DOMAIN user_servers
                 /\ Head(task[t].configs).id
                      \notin DOMAIN user_servers[task[t].user]
        /\ \A u1 \in DOMAIN user_servers, u2 \in DOMAIN user_servers :
            \A c1 \in DOMAIN user_servers[u1], c2 \in DOMAIN user_servers[u2] :
              user_servers[u1][c1] = user_servers[u2][c2]
                => u1 = u2 /\ c1 = c2)
  /\ [][\A u \in DOMAIN user_servers :
          \A c \in DOMAIN user_servers[u] :
            (u \in DOMAIN user_servers' /\ c \in DOMAIN user_servers'[u])
              => user_servers'[u][c] = user_servers[u][c]]_vars

\* a forced reload has skipped the registered configuration 1 and is
\* starting configuration 2 next to it
C16_Witness ==
  /\ 1 \in loaded_users
  /\ 1 \in DOMAIN user_servers
  /\ DOMAIN user_servers[1] = {1}
  /\ \E t \in Tasks : /\ task[t].op = "load"
                      /\ task[t].pc = "await"
                      /\ Head(task[t].configs).id = 2
                      /\ task[t].servers = {user_servers[1][1]}

\* C17: no tools/call is written to a process before its client has taken a
\* successful initialize response, and every instance of the registry map
\* has a started process and has taken successful responses to initialize
\* and to tools/list.
C17_HandshakeBeforeCall ==
  /\ \A cl \in 1..nclients :
       /\ (\E rid \in 1..MaxReq : <<rid, "tools/call">> \in client[cl].written)
            => /\ "initialize" \in client[cl].answered
               /\ client[cl].initialized
       /\ client[cl].registered
            => /\ Started(client[cl])
               /\ {"initialize", "tools/list"} \subseteq client[cl].answered
  /\ \A u \in DOMAIN user_servers : \A c \in DOMAIN user_servers[u] :
       client[user_servers[u][c]].registered

\* a tools/call has been written to the process of a registered instance
C17_Witness ==
  /\ 1 \in DOMAIN user_servers
  /\ 1 \in DOMAIN user_servers[1]
  /\ \E rid \in 1..MaxReq :
       <<rid, "tools/call">> \in client[user_servers[1][1]].written

\* C18: get_user_tools first makes sure the user is loaded, going through
\* load_user_mcps when the user is not; it then returns exactly the tools
\* advertised by the instances of the user's map, each tagged with the
\* config id and display name of its instance, and every server id it
\* returns is a key of the map at the time the list is built.
C18_ToolsOfTheMap ==
  [][\A t \in Tasks :
       /\ (Free(t) /\ task'[t].op = "tools"
              /\ task'[t].user \notin loaded_users)
            => task'[t].pc = "load_lock"
       /\ (task[t].pc # "tools_lock" /\ task'[t].pc = "tools_lock")
            => task'[t].user \in loaded_users'
       /\ (task[t].op = "tools" /\ task'[t].op = "idle")
            => LET u == task[t].user
                   m == IF u \in DOMAIN user_servers
                        THEN user_servers[u] ELSE <<>>
               IN /\ task[t].pc = "tools_lock"
                  /\ ret'.op = "tools"
                  /\ ret'.user = u
                  /\ ret'.res = Return(0)
                  /\ \A x \in ret'.tools :
                       /\ x.mcp_server_id \in DOMAIN m
                       /\ client[m[x.mcp_server_id]].config = x.mcp_server_id
                       /\ x.name \in ServerTools(x.mcp_server_id)
                       /\ x.mcp_server_name = ConfigName(x.mcp_server_id)
                  /\ \A c \in DOMAIN m : \A tl \in ServerTools(c) :
                       [name |-> tl, mcp_server_id |-> c,
                        mcp_server_name |-> ConfigName(c)] \in ret'.tools]_vars

\* get_user_tools has returned the one tool of configuration 1 and the two
\* tools of configuration 2, the common name once for each instance
C18_Witness ==
  /\ ret.op = "tools"
  /\ Cardinality(ret.tools) = 3
  /\ \E x \in ret.tools : x.name = "t1" /\ x.mcp_server_id = 1
  /\ \E x \in ret.tools : x.name = "t1" /\ x.mcp_server_id = 2

\* C19: execute_tool for a (user, config) pair with no instance in the map
\* raises a server-not-found error that names the config id, starts no
\* process and sends no request; MCPExecutor.execute turns it into a
\* success = false response carrying that message.
C19_NotFoundNamesConfig ==
  [][LET Absent(u, c) == u \notin DOMAIN user_servers
                           \/ c \notin DOMAIN user_servers[u]
          Msg(u, c) == "MCP server " \o ToString(c) \o " not found for user "
                         \o ToString(u)
          Untouched == client' = client /\ nclients' = nclients
                         /\ user_servers' = user_servers
                         /\ loaded_users' = loaded_users
          NotFound == /\ ret'.res = Return(0)
                      /\ ~ret'.resp.success
                      /\ ret'.resp.error = Msg(ret'.user, ret'.config)
                      /\ ret'.resp.tool_name = ret'.tool
                      /\ Untouched
    IN /\ (/\ ret' # ret
           /\ ret'.op = "exec_tool"
           /\ task' = task
           /\ Absent(ret'.user, ret'.config))
          => /\ ret'.res = Raise(Msg(ret'.user, ret'.config))
             /\ Untouched
       /\ (/\ ret' # ret
           /\ ret'.op = "execute"
           /\ task' = task
           /\ ~IsDenied(CheckRateLimit(ret'.user, ret'.config))
           /\ Absent(ret'.user, ret'.config))
          => NotFound
       /\ \A t \in Tasks :
            (/\ task[t].pc = "exec_lock"
             /\ task'[t] # task[t]
             /\ Absent(task[t].user, task[t].config))
              => /\ task'[t].op = "idle"
                 /\ ret'.op = "execute"
                 /\ ret'.user = task[t].user
                 /\ ret'.config = task[t].config
                 /\ NotFound]_vars

\* user 1 is loaded with an instance of configuration 1, and an execute for
\* the disabled configuration 2 has come back with the not-found message
C19_Witness ==
  /\ 1 \in loaded_users
  /\ 1 \in DOMAIN user_servers
  /\ DOMAIN user_servers[1] = {1}
  /\ ret.op = "execute"
  /\ ret.user = 1
  /\ ret.config = 2
  /\ ~ret.resp.success
  /\ ret.resp.error = "MCP server 2 not found for user 1"

\* C20: load_user_mcps without force_reload for a user already marked loaded
\* returns the instances of the user's map as it is and changes nothing: it
\* does not go on to fetch the configurations, no client is built or
\* written to, and the map, the loaded set and the store stay as they are.
C20_CachedLoadChangesNothing ==
  [][/\ \A t \in Tasks :
          (Free(t) /\ task'[t].op = "load")
            => task'[t].user \notin loaded_users
     /\ (ret' # ret /\ ret'.op = "load" /\ task' = task)
          => /\ ret'.user \in loaded_users
             /\ ret'.res = Return(0)
             /\ ret'.servers =
                  IF ret'.user \in DOMAIN user_servers
                  THEN {user_servers[ret'.user][c] :
                          c \in DOMAIN user_servers[ret'.user]}
                  ELSE {}
             /\ client' = client
             /\ nclients' = nclients
             /\ user_servers' = user_servers
             /\ loaded_users' = loaded_users
             /\ lock' = lock
             /\ UNCHANGED storeVars]_vars

\* a load of the loaded user 1 has returned the one instance of the map
\* from the cache; the start of the other configuration had failed
C20_Witness ==
  /\ ret.op = "load"
  /\ ret.cached
  /\ ret.user = 1
  /\ 1 \in loaded_users
  /\ 1 \in DOMAIN user_servers
  /\ DOMAIN user_servers[1] = {2}
  /\ ret.servers = {user_servers[1][2]}
  /\ nclients = 2

\* C21 as stated: when shutdown_all returns, no user has an instance left
\* in the map and every client the registry had registered has been shut
\* down, whatever load_user_mcps calls began before it returned.
C21_AllGoneWhenAllReturns ==
  [][(ret' # ret /\ ret'.op = "shutdown_all")
       => /\ \A u \in DOMAIN user_servers' : DOMAIN user_servers'[u] = {}
          /\ \A cl \in 1..nclients :
               client'[cl].registered => client'[cl].process # "running"]_vars

\* C22 as stated: a line that is not valid JSON, not decodable text, or
\* valid JSON that is not an object is skipped and the reader loop keeps
\* running, so that later responses still resolve their requests: while
\* the process runs, only the cancellation by shutdown ends the reader.
C22_MalformedLineSkipped ==
  [][\A cl \in Clients :
       (/\ client[cl].reader_task = "running"
        /\ client[cl].process = "running"
        /\ client'[cl].process = "running")
         => client'[cl].reader_task \in {"running", "cancelled"}]_vars

\* C23 as stated: with the store reachable, check_rate_limit(user, config)
\* counts the rows of that (user, config) pair in the last hour, allowed is
\* count < limit and remaining is max(0, limit - count); rows of another
\* user or of another configuration do not count.
C23_CountsOwnPairOnly ==
  LET PairCount(u, c) ==
        Cardinality({i \in (expired + 1)..Len(calls) :
                       /\ calls[i].user_id = u
                       /\ calls[i].mcp_config_id = c})
  IN store_up =>
       \A u \in Users, c \in Configs :
         /\ CheckRateLimit(u, c).allowed = (PairCount(u, c) < CallsPerHour)
         /\ CheckRateLimit(u, c).remaining =
              (IF CallsPerHour - PairCount(u, c) > 0
               THEN CallsPerHour - PairCount(u, c) ELSE 0)

\* C24: a failure of record_tool_call does not change what execute returns:
\* whether or not the row could be written, a tool call that succeeded is
\* returned as success = true with its result, a failed one as success =
\* false with the error of the call, and execute does not raise.
C24_RecordFailureInvisible ==
  [][\A t \in Tasks :
       (task[t].op = "execute" /\ task[t].pc = "await"
          /\ task'[t].op = "idle")
         => /\ ret'.op = "execute"
            /\ ret'.res.kind = "return"
            /\ ret'.tool = task[t].tool
            /\ task[t].fut = "result"
                 => ret'.resp = Succeeded(task[t], task[t].val)
            /\ task[t].fut = "error"
                 => ret'.resp = Failed(task[t], "mcp error")
            /\ task[t].fut = "pending"
                 => ret'.resp = Failed(task[t], "timeout")
            /\ (~store_up => calls' = calls)]_vars

\* a tool call has been returned as a success although its row could not be
\* written
C24_Witness ==
  /\ ret.op = "execute"
  /\ ret.resp.success
  /\ ret.resp.error = NoneError
  /\ calls = <<>>

\* C25 as stated: every response of execute has success, tool_name and
\* execution_time_ms set, result set when success = true and error set when
\* success = false, for a success, a failure and a quota denial alike.
C25_UniformEnvelope ==
  ret.op = "execute" =>
    /\ ret.resp.set
    /\ ret.resp.tool_name = ret.tool
    /\ ret.resp.execution_time_ms # "None"
    /\ ret.resp.success => ret.resp.result # NoneResult
    /\ ~ret.resp.success => ret.resp.error # NoneError

\* C26 as stated: with the store reachable, concurrent executes of one
\* (user, config) pair never dispatch more tool calls to the server within
\* one hour than the limit allows.
C26_NoOvershoot ==
  Cardinality({x \in Clients \X (1..MaxReq) :
                 <<x[2], "tools/call">> \in client[x[1]].written})
    <= CallsPerHour

\* C27 as stated: a client only moves forward to ShuttingDown and Stopped:
\* once shutdown() has begun on it (its stdin is closed) no further request
\* is written to its process, and list_tools and call_tool are rejected,
\* so that no caller starts to wait for a response of it.
C27_ShutDownClientRejects ==
  [][\A cl \in Clients :
       client[cl].stdin_closed
         => /\ client'[cl].stdin_closed
            /\ client'[cl].written = client[cl].written
            /\ \A t \in Tasks :
                 (Free(t) /\ task'[t].pc = "await"
                    /\ task'[t].method \in {"tools/list", "tools/call"})
                   => task'[t].cl # cl]_vars

\* C28 as stated: every process the registry spawned is owned by an
\* instance of the map or has been shut down; a start that fails after the
\* spawn stops the process and its reader. A client still in its start is
\* owned by the load that runs it.
C28_NoOrphanProcess ==
  \A cl \in 1..nclients :
    (client[cl].process = "running" \/ client[cl].reader_task = "running")
      => \/ \E u \in DOMAIN user_servers :
              \E c \in DOMAIN user_servers[u] : user_servers[u][c] = cl
         \/ \E t \in Tasks : /\ task[t].op \in {"load", "tools"}
                              /\ task[t].pc = "await"
                              /\ task[t].cl = cl
         \/ client[cl].stdin_closed

\* C29: shutdown_user_mcps takes the user's instances out of the map and
\* the user out of the loaded set before it waits for any client shutdown:
\* while the shutdowns are in progress none of their clients is in the map,
\* the client a load is starting is a fresh one, and no load or
\* get_user_tools returns a client that is being shut down.
C29_ShutdownPopsFirst ==
  /\ [](\A t \in Tasks :
          task[t].op = "shutdown_user"
            => \A i \in 1..Len(task[t].todo) :
                 /\ \A u \in DOMAIN user_servers :
                      \A c \in DOMAIN user_servers[u] :
                        user_servers[u][c] # task[t].todo[i]
                 /\ \A x \in Tasks :
                      (task[x].op \in {"load", "tools"}
                         /\ task[x].pc = "await")
                        => task[x].cl # task[t].todo[i])
  /\ [][\A t \in Tasks :
          /\ (Free(t) /\ task'[t].op = "shutdown_user")
               => /\ task'[t].user \notin DOMAIN user_servers'
                  /\ task'[t].user \notin loaded_users'
          /\ (task'[t].op = "shutdown_user" /\ ret' # ret
                /\ ret'.op \in {"load", "tools"})
               => \A i \in 1..Len(task'[t].todo) :
                    task'[t].todo[i] \notin ret'.servers]_vars

\* while the shutdown of the old instance is in progress, a load of the
\* same user is waiting for the handshake of a fresh process
C29_Witness ==
  \E t \in Tasks, x \in Tasks :
    /\ task[t].op = "shutdown_user"
    /\ task[t].pc = "sd_closing"
    /\ task[x].op = "load"
    /\ task[x].user = task[t].user
    /\ task[x].pc = "await"
    /\ client[task[x].cl].config = client[task[t].cl].config
    /\ task[x].cl # task[t].cl

C31_PendingOnlyAwaited ==
  \A cl \in 1..nclients : \A id \in client[cl].pending_requests :
    \E t \in Tasks : /\ task[t].pc = "await"
                     /\ task[t].cl = cl
                     /\ task[t].rid = id

\* C32: within the life of one client the request ids strictly increase in
\* send order and never repeat: each request takes an id one above the
\* counter, greater than every id sent, pending or awaited before, also
\* when calls interleave and after a timeout has freed an entry; no two
\* calls waiting on one client share an id.
C32_IdsIncrease ==
  /\ [](\A cl \in Clients :
          /\ client[cl].pending_requests \subseteq 1..client[cl].request_id
          /\ \A w \in client[cl].written : w[1] \in 1..client[cl].request_id
          /\ \A t, x \in Tasks :
               (/\ t # x
                /\ task[t].pc = "await" /\ task[x].pc = "await"
                /\ task[t].cl = cl /\ task[x].cl = cl)
                 => task[t].rid # task[x].rid)
  /\ [][\A cl \in Clients :
          /\ client'[cl].request_id >= client[cl].request_id
          /\ \A id \in client'[cl].pending_requests
                          \ client[cl].pending_requests :
               /\ id = client[cl].request_id + 1
               /\ id = client'[cl].request_id
          /\ \A w \in client'[cl].written \ client[cl].written :
               /\ w[1] = client[cl].request_id + 1
               /\ w[1] = client'[cl].request_id
          /\ \A t \in Tasks :
               (/\ task'[t].pc = "await"
                /\ task'[t].cl = cl
                /\ task[t].pc # "await" \/ task'[t].rid # task[t].rid)
                 => /\ task'[t].rid = client[cl].request_id + 1
                    /\ task'[t].rid = client'[cl].request_id]_vars

\* a request has timed out on a client and two later requests, sent with
\* greater ids, are waiting on it at the same time
C32_Witness ==
  \E t, x \in Tasks :
    /\ t # x
    /\ task[t].pc = "await" /\ task[x].pc = "await"
    /\ task[t].cl = task[x].cl
    /\ ret.res.kind = "raise" /\ ret.res.what = "timeout"
    /\ ret.cl = task[t].cl
    /\ ret.rid < task[t].rid /\ ret.rid < task[x].rid
    /\ ret.rid \notin client[ret.cl].pending_requests

\* C33: shutdown() terminates the process only after the bounded wait that
\* follows the cancelling of the reader and the closing of stdin ran out
\* with the process still running, and every shutdown() eventually returns,
\* also when the process does not exit after its input is closed.
C33_ShutdownReturns ==
  /\ [][\A t \in Tasks :
          (task'[t].pc = "sd_wait_term" /\ task[t].pc # "sd_wait_term")
            => /\ task[t].pc = "sd_wait_exit"
               /\ client[task[t].cl].process = "running"]_vars
  /\ \A t \in Tasks : (task[t].op = "c_shutdown") ~> Free(t)

\* C34: shutdown() never raises and is idempotent: every shutdown() returns
\* normally and leaves the client with no running process and no running
\* reader; on a client that was never started or failed to start it returns
\* at once, without a wait, and changes nothing; on a client that was
\* already shut down it changes nothing and does not get to terminate().
C34_ShutdownIdempotent ==
  /\ [](ret.op = "c_shutdown" => ret.res.kind = "return")
  /\ [][/\ (ret' # ret /\ ret'.op = "c_shutdown")
            => /\ client'[ret'.cl].process # "running"
               /\ client'[ret'.cl].reader_task # "running"
               /\ client[ret'.cl].process = "none"
                    => client' = client /\ task' = task
         /\ \A t \in Tasks :
              (task'[t] # task[t] /\ task'[t].op = "c_shutdown")
                => LET cl == task'[t].cl IN
                   /\ client[cl].process # "none"
                   /\ (/\ client[cl].process = "exited"
                       /\ client[cl].stdin_closed
                       /\ client[cl].reader_task # "running")
                        => /\ client'[cl] = client[cl]
                           /\ task'[t].pc # "sd_wait_term"]_vars

\* a shutdown() is at its first wait on a client whose process has exited
\* with stdin closed and of which a shutdown() has returned, while nothing
\* else runs
C34_Witness ==
  \E t \in Tasks :
    /\ task[t].op = "c_shutdown"
    /\ task[t].pc = "sd_closing"
    /\ client[task[t].cl].process = "exited"
    /\ client[task[t].cl].stdin_closed
    /\ ret.op = "c_shutdown"
    /\ ret.res.kind = "return"
    /\ ret.cl = task[t].cl
    /\ \A x \in Tasks \ {t} : Free(x)

\* C35: when a load_user_mcps call returns, its user is marked loaded, also
\* when the fetch failed or a start failed; and a non-forced load_user_mcps
\* or get_user_tools that begins while the user is marked loaded neither
\* fetches nor starts anything: the load returns the instances of the map,
\* get_user_tools goes straight to collecting the tools of the map. A
\* configuration is fetched and started again only after a shutdown has
\* unmarked the user.
C35_LoadedNeverRetried ==
  [][/\ (ret' # ret /\ ret'.op = "load") => ret'.user \in loaded_users'
     /\ \A t \in Tasks :
          (Free(t) /\ task'[t].op \in {"load", "tools"}
             /\ task'[t].user \in loaded_users)
            => /\ task'[t].pc = "tools_lock"
               /\ client' = client
               /\ nclients' = nclients
               /\ user_servers' = user_servers
     /\ (task' = task /\ ret' # ret /\ ret'.op = "load")
            => /\ ret'.cached
               /\ ret'.servers = CachedServers(ret'.user)
               /\ client' = client
               /\ nclients' = nclients
               /\ user_servers' = user_servers]_vars

\* the fetch of a load failed and no process was started; the user is
\* marked loaded with an empty map, and with the store reachable again and
\* configuration 1 enabled a load has returned no instance from the cache
C35_Witness ==
  /\ ret.op = "load"
  /\ ret.cached
  /\ ret.user = 1
  /\ ret.servers = {}
  /\ 1 \in loaded_users
  /\ 1 \in DOMAIN user_servers
  /\ DOMAIN user_servers[1] = {}
  /\ nclients = 0
  /\ store_up
  /\ enabled[1]

C37_LockNeverDeadlocks ==
  /\ [](lock # 0 => /\ task[lock].op \in {"load", "tools"}
                    /\ task[lock].pc \in {"spawning", "await"})
  /\ [](\A t \in Tasks :
          task[t].pc \in {"idle", "load_lock", "tools_lock", "exec_lock",
                          "all_lock"} => lock # t)
  /\ (lock # 0) ~> (lock = 0)
  /\ \A t \in Callers :
       (task[t].pc \in {"load_lock", "tools_lock", "exec_lock", "all_lock"})
         ~> \/ task[t].pc \notin {"load_lock", "tools_lock", "exec_lock",
                                  "all_lock"}
            \/ /\ lock = 0
               /\ task[t].pc = "exec_lock"
               /\ ~ENABLED ExecuteCall(t)

\* one coroutine holds the lock in the start loop of a load, waiting for a
\* server, and the other one waits for the lock
C37_Witness ==
  \E t, x \in Callers :
    /\ lock = t
    /\ task[t].pc = "await"
    /\ task[x].pc \in {"tools_lock", "exec_lock", "all_lock"}

\* C38: every user of the loaded set has an entry in the instance map; the
\* map and the loaded set are written only by the coroutine that holds the
\* lock or takes the free lock in that step; a user is marked loaded with
\* its entry in the map, and a shutdown removes the entry and the mark
\* together.
C38_LoadedHaveEntries ==
  /\ [](loaded_users \subseteq DOMAIN user_servers)
  /\ [][/\ (user_servers' # user_servers \/ loaded_users' # loaded_users)
            => /\ lock # 0 => task'[lock] # task[lock]
               /\ lock = 0 => \E t \in Tasks : /\ lock' \in {0, t}
                                               /\ \A x \in Tasks \ {t} :
                                                    task'[x] = task[x]
         /\ \A u \in Users :
              /\ (u \in loaded_users' /\ u \notin loaded_users)
                   => u \in DOMAIN user_servers'
              /\ (u \in loaded_users /\ u \notin loaded_users')
                   => u \notin DOMAIN user_servers'
              /\ (u \in DOMAIN user_servers /\ u \notin DOMAIN user_servers')
                   => u \notin loaded_users']_vars

\* a shutdown that removed the entry and the mark of user 1 is still
\* closing a client; a load that holds the lock has put the entry back and
\* waits for a server, the user not being marked yet
C38_Witness ==
  \E t, x \in Tasks :
    /\ task[t].op = "shutdown_user"
    /\ task[t].pc = "sd_closing"
    /\ lock = x
    /\ task[x].op = "load"
    /\ task[x].pc = "await"
    /\ 1 \in DOMAIN user_servers
    /\ 1 \notin loaded_users

====
